---- MODULE Spec2Model ----
(***************************************************************************)
(* A model of ferry/fabric/openstack/singlelauncher.py: the SingleLauncher *)
(* class that composes a Heat plan for a cluster, submits it, polls the    *)
(* stack, stitches the physical ids and the network addresses back into    *)
(* the description table, and tears a stack down.                          *)
(*                                                                         *)
(* A behaviour is one call of one method of the class from the state the   *)
(* constructor leaves.  Every remote call (Heat, Neutron) is one step; the *)
(* answer of the remote service is chosen in that step, and calls is the   *)
(* log of the remote calls made.  The locals of a method (resources, fips, *)
(* ports, ip_map) are kept while its frame is live and in the final state  *)
(* of the call that was made from outside; they are dropped when the       *)
(* method returns to a calling method.                                     *)
(*                                                                         *)
(* Python values: a dict is a function on its key set, a list a sequence,  *)
(* None the string NoneVal, a str that the code splits a sequence of       *)
(* one-character strings, a raised exception the value of err.             *)
(***************************************************************************)
EXTENDS Integers, Sequences, FiniteSets, TLC

VARIABLES pc, op, args, calls, submitted, stack_id, stack_name,
          desc_in, stack_desc, resources, idx, fips, ports, ip_map,
          ret, err, apps, sec_group_ports, race

vars == <<pc, op, args, calls, submitted, stack_id, stack_name,
          desc_in, stack_desc, resources, idx, fips, ports, ip_map,
          ret, err, apps, sec_group_ports, race>>

(***************************************************************************)
(* Bounds of the model.                                                    *)
(***************************************************************************)
\* non-terminal answers (a pending status or an authorization error) one poll loop may see
MaxPolls == 2
\* length of a heat.resources.list answer
MaxListing == 5
\* length of a neutron list_floatingips / list_ports answer
MaxNetListing == 2
\* instances asked of _create_instance_plan, containers given to alloc
MaxInstances == 2

(***************************************************************************)
(* Python dicts and lists.                                                 *)
(***************************************************************************)
NoneVal == "None"

EmptyDict == <<>>

\* d[k] = v
Put(d, k, v) == [x \in DOMAIN d \cup {k} |-> IF x = k THEN v ELSE d[x]]

\* dict(a.items() + b.items()): on a shared key the later item wins
Merge(a, b) == [x \in DOMAIN a \cup DOMAIN b |-> IF x \in DOMAIN b THEN b[x] ELSE a[x]]

\* the truth value Python gives a string or None
Truthy(x) == x # NoneVal /\ x # ""

Range(s) == {s[i] : i \in DOMAIN s}

\* the sequences without repetition over S of length at most n
InjSeqs(S, n) ==
    UNION {{s \in [1..k -> S] : \A i, j \in 1..k : i # j => s[i] # s[j]} : k \in 0..n}

\* s.split(sep), s a sequence of characters, from position i with the piece cur open
RECURSIVE SplitFrom(_, _, _, _)
SplitFrom(s, sep, i, cur) ==
    IF i > Len(s) THEN <<cur>>
    ELSE IF s[i] = sep THEN <<cur>> \o SplitFrom(s, sep, i + 1, <<>>)
    ELSE SplitFrom(s, sep, i + 1, Append(cur, s[i]))

Split(s, sep) == SplitFrom(s, sep, 1, <<>>)

(***************************************************************************)
(* Configuration read by _init_open_stack.                                 *)
(***************************************************************************)
external_network == "ext-net"
manage_network == "manage-net"
default_zone == "az1"
default_image == "ferry-image"
default_personality == "standard.small"
ssh_key == "ferry-key"

\* self.subnet as _collect_subnet_info leaves it
subnet == [id |-> NoneVal, cidr |-> NoneVal, gateway |-> NoneVal]

(***************************************************************************)
(* Logical names.                                                          *)
(***************************************************************************)
Clusters == {"c1", "c2"}
CTypes == {"connector", "backend"}

\* ctype.upper()
Upper(ctype) == IF ctype = "connector" THEN "CONNECTOR" ELSE "BACKEND"

sec_group_name(cluster_uuid) == "ferry-sec-" \o cluster_uuid

instance_name(cluster_uuid, ctype, i) ==
    "ferry-instance-" \o cluster_uuid \o "-" \o ctype \o "-" \o ToString(i)

port_name(name) == "ferry-port-" \o name

\* line 271 without the counter: every floating IP of the cluster under one name
ip_name_fixed(cluster_uuid, i) == "ferry-ip-" \o cluster_uuid

ip_name(cluster_uuid, i) == "ferry-ip-" \o cluster_uuid \o "-" \o ToString(i)

assoc_name(name) == name \o "_assoc"

app_stack_name(cluster_uuid, ctype) == "ferry-app-" \o Upper(ctype) \o "-" \o cluster_uuid

Ref(x) == [Ref |-> x]

Envelope(res) ==
    [AWSTemplateFormatVersion |-> "2010-09-09",
     Description |-> "Ferry generated Heat plan",
     Resources |-> res]

(***************************************************************************)
(* Plan fragment builders.  Each yields [err, plan, desc]; err is "none"   *)
(* or the exception the builder raises.                                    *)
(***************************************************************************)
Ok(plan, desc) == [err |-> "none", plan |-> plan, desc |-> desc]

Raise(e) == [err |-> e, plan |-> EmptyDict, desc |-> EmptyDict]

_create_floating_ip(name, port) ==
    Ok(Put(Put(EmptyDict, name,
               [Type |-> "OS::Neutron::FloatingIP",
                Properties |-> [floating_network_id |-> external_network]]),
           assoc_name(name),
           [Type |-> "OS::Neutron::FloatingIPAssociation",
            Properties |-> [floatingip_id |-> Ref(name), port_id |-> Ref(port)]]),
       [type |-> "OS::Neutron::FloatingIP"])

BaselineRules ==
    << [protocol |-> "icmp", remote_ip_prefix |-> "0.0.0.0/0"],
       [protocol |-> "tcp", remote_ip_prefix |-> "0.0.0.0/0",
        port_range_min |-> 22, port_range_max |-> 22] >>

\* lines 149-153 with the two bounds of the pair exchanged
PortRuleSwapped(p) == [protocol |-> "tcp", port_range_min |-> p[2], port_range_max |-> p[1]]

PortRule(p) == [protocol |-> "tcp", port_range_min |-> p[1], port_range_max |-> p[2]]

_create_security_group(group_name, sg_ports) ==
    Put(EmptyDict, group_name,
        [Type |-> "OS::Neutron::SecurityGroup",
         Properties |-> [name |-> group_name,
                         description |-> "Ferry firewall rules",
                         rules |-> BaselineRules \o
                                   [i \in 1..Len(sg_ports) |-> PortRule(sg_ports[i])]]])

_create_port(name, network, sec_group, ref) ==
    Put(EmptyDict, name,
        [Type |-> "OS::Neutron::Port",
         Properties |-> [name |-> name,
                         security_groups |-> <<Ref(sec_group)>>,
                         network |-> IF ref THEN Ref(network) ELSE [literal |-> network]]])

\* lines 227-250 without line 246, the table entry of the port
InstanceFragmentNoPortEntry(name, image, size, network, sec_group) ==
    Ok(_create_port(port_name(name), network, sec_group, FALSE),
       Put(EmptyDict, name,
           [type |-> "OS::Nova::Server",
            ports |-> <<port_name(name)>>,
            volumes |-> <<>>]))

\* _create_instance up to the port merge (lines 227-250)
InstanceFragment(name, image, size, network, sec_group) ==
    Ok(Merge(Put(EmptyDict, name,
                 [Type |-> "OS::Nova::Server",
                  Properties |-> [name |-> name,
                                  image |-> image,
                                  key_name |-> ssh_key,
                                  flavor |-> size,
                                  availability_zone |-> default_zone,
                                  networks |-> << [port |-> Ref(port_name(name)),
                                                   network |-> network] >>]]),
             _create_port(port_name(name), network, sec_group, FALSE)),
       Put(Put(EmptyDict, name,
               [type |-> "OS::Nova::Server",
                ports |-> <<port_name(name)>>,
                volumes |-> <<>>]),
           port_name(name),
           [type |-> "OS::Neutron::Port", role |-> "manage"]))

\* line 253 reads data_networks, a name bound nowhere: the call raises NameError
\* after the fragment is built and before it is returned
_create_instance(name, image, size, network, sec_group) ==
    LET built == InstanceFragment(name, image, size, network, sec_group)
    IN  Raise("NameError")

RECURSIVE FloatingIpLoop(_, _, _, _)
FloatingIpLoop(cluster_uuid, ifaces, i, acc) ==
    IF i >= Len(ifaces) THEN acc
    ELSE LET nm == ip_name(cluster_uuid, i)
             f == _create_floating_ip(nm, ifaces[i + 1])
         IN  FloatingIpLoop(cluster_uuid, ifaces, i + 1,
                            Ok(Merge(acc.plan, f.plan), Put(acc.desc, nm, f.desc)))

_create_floatingip_plan(cluster_uuid, ifaces) ==
    LET r == FloatingIpLoop(cluster_uuid, ifaces, 0, Ok(EmptyDict, EmptyDict))
    IN  Ok(Envelope(r.plan), r.desc)

_create_security_plan(cluster_uuid, sg_ports) ==
    Ok(Envelope(_create_security_group(sec_group_name(cluster_uuid), sg_ports)),
       Put(EmptyDict, sec_group_name(cluster_uuid), [type |-> "OS::Neutron::SecurityGroup"]))

RECURSIVE InstanceLoop(_, _, _, _, _, _, _, _)
InstanceLoop(cluster_uuid, n, image, size, sec, ctype, i, acc) ==
    IF i >= n THEN acc
    ELSE LET inst == _create_instance(instance_name(cluster_uuid, ctype, i),
                                      image, size, manage_network, sec)
         IN  IF inst.err # "none" THEN Raise(inst.err)
             ELSE InstanceLoop(cluster_uuid, n, image, size, sec, ctype, i + 1,
                               Ok(Merge(acc.plan, inst.plan), Merge(acc.desc, inst.desc)))

_create_instance_plan(cluster_uuid, num_instances, image, size, sec, ctype) ==
    LET r == InstanceLoop(cluster_uuid, num_instances, image, size, sec, ctype, 0,
                          Ok(EmptyDict, EmptyDict))
    IN  IF r.err # "none" THEN r
        ELSE Ok([AWSTemplateFormatVersion |-> "2010-09-09",
                 Description |-> "Ferry generated Heat plan",
                 Resources |-> r.plan,
                 Outputs |-> EmptyDict],
                r.desc)

(***************************************************************************)
(* What the remote services may answer.                                    *)
(***************************************************************************)
\* identifiers heat.stacks.create hands out
StackIds == {"stack-1", "stack-2"}

\* a stack status that ends the poll loop, and one that does not
TerminalStatuses == {"COMPLETE", "FAILED"}
PendingStatuses == {"IN_PROGRESS"}

Resource(lid, pid, type) ==
    [logical_resource_id |-> lid, physical_resource_id |-> pid, resource_type |-> type]

\* resources Heat may list for a stack: the logical ids are keys of the template
ResourcePool ==
    { Resource(sec_group_name("c1"), "sg-1", "OS::Neutron::SecurityGroup"),
      Resource(ip_name("c1", 0), "fip-1", "OS::Neutron::FloatingIP"),
      Resource(assoc_name(ip_name("c1", 0)), "assoc-1", "OS::Neutron::FloatingIPAssociation"),
      Resource(ip_name("c1", 1), "fip-2", "OS::Neutron::FloatingIP"),
      Resource(port_name(instance_name("c1", "backend", 0)), "port-1", "OS::Neutron::Port") }

\* an answer of heat.resources.list: template keys are unique, so no logical id repeats
Listings == InjSeqs(ResourcePool, MaxListing)

\* floating IPs Neutron may list; fixed_ip_address is None while the address is unbound
FloatingIpPool ==
    { [fixed_ip_address |-> "10.0.0.1", floating_ip_address |-> "172.24.4.1"],
      [fixed_ip_address |-> NoneVal, floating_ip_address |-> "172.24.4.2"],
      [fixed_ip_address |-> "10.0.0.2", floating_ip_address |-> "172.24.4.3"] }

NetPort(name, subnet_id, ip) ==
    [name |-> name, fixed_ips |-> << [subnet_id |-> subnet_id, ip_address |-> ip] >>]

\* ports Neutron may list: port names are not unique in Neutron, and "" is the
\* name of a port created without one
PortPool ==
    { NetPort(port_name(instance_name("c1", "backend", 0)), "subnet-1", "10.0.0.1"),
      NetPort(port_name(instance_name("c1", "backend", 0)), "subnet-1", "10.0.0.3"),
      NetPort(port_name(instance_name("c1", "backend", 1)), "subnet-1", "10.0.0.2"),
      NetPort("", "subnet-1", "10.0.0.2") }

FloatingIpListings == InjSeqs(FloatingIpPool, MaxNetListing)
PortListings == InjSeqs(PortPool, MaxNetListing)

Call(api, arg) == [api |-> api, arg |-> arg]

(***************************************************************************)
(* The state the constructor leaves: no application, no call in progress.  *)
(***************************************************************************)
\* the threads that may run alloc at the same time
Threads == {1, 2}

\* a thread that has not called alloc
RaceIdle ==
    [t \in Threads |->
        [pc |-> "idle", args |-> EmptyDict, stack_id |-> NoneVal, stack_name |-> NoneVal,
         stack_desc |-> EmptyDict, err |-> "none", stored |-> 0]]

Unset == [kind |-> "unset"]
PyNone == [kind |-> "none"]
PyBool(b) == [kind |-> "bool", val |-> b]
PyDesc(d) == [kind |-> "desc", val |-> d]
PyList(l) == [kind |-> "list", val |-> l]

\* no call in progress
NoCall ==
    /\ pc = "idle"
    /\ op = "none"
    /\ args = EmptyDict
    /\ calls = <<>>
    /\ submitted = <<>>
    /\ stack_id = NoneVal
    /\ stack_name = NoneVal
    /\ desc_in = EmptyDict
    /\ stack_desc = EmptyDict
    /\ resources = <<>>
    /\ idx = 0
    /\ fips = <<>>
    /\ ports = <<>>
    /\ ip_map = EmptyDict
    /\ ret = Unset
    /\ err = "none"
    /\ sec_group_ports = <<>>
    /\ race = RaceIdle

Init ==
    /\ NoCall
    /\ apps = EmptyDict

(***************************************************************************)
(* _wait_for_stack: the poll loop.  It runs on its own (op = "wait") and   *)
(* inside _launch_heat_plan (op = "launch", op = "alloc").                 *)
(***************************************************************************)
Get(sid, out) == [api |-> "heat.stacks.get", arg |-> sid, out |-> out]

IsGet(c) == c["api"] = "heat.stacks.get"

\* what the heat.stacks.get calls made so far answered, in order
reads == LET gets == SelectSeq(calls, IsGet) IN [i \in 1..Len(gets) |-> gets[i]["out"]]

\* lines 360-363 with the two tests swapped
_wait_for_stack_swapped(status) == status = "FAILED"

\* lines 360-363 with every terminal status taken for success
_wait_for_stack_any(status) == TRUE

\* lines 360-363: the value returned on a terminal status
_wait_for_stack_result(status) == status = "COMPLETE"

\* line 359 answers a pending status: line 365 sleeps and the loop goes round
PollPending ==
    /\ pc = "poll"
    /\ Len(reads) < MaxPolls
    /\ \E st \in PendingStatuses :
          calls' = Append(calls, Get(stack_id, st))
    /\ UNCHANGED <<pc, op, args, submitted, stack_id, stack_name, desc_in, stack_desc,
                   resources, idx, fips, ports, ip_map, ret, err, apps>>
    /\ UNCHANGED <<sec_group_ports, race>>

\* lines 366-367 absent: the authorization error leaves the loop and the call
PollUnauthorizedRaises ==
    /\ pc = "poll"
    /\ Len(reads) < MaxPolls
    /\ calls' = Append(calls, Get(stack_id, "HTTPUnauthorized"))
    /\ err' = "HTTPUnauthorized"
    /\ pc' = "raised"
    /\ UNCHANGED <<op, args, submitted, stack_id, stack_name, desc_in, stack_desc,
                   resources, idx, fips, ports, ip_map, ret, apps>>
    /\ UNCHANGED <<sec_group_ports, race>>

\* line 359 raises HTTPUnauthorized: lines 366-367 log it and the loop goes round
PollUnauthorized ==
    /\ pc = "poll"
    /\ Len(reads) < MaxPolls
    /\ calls' = Append(calls, Get(stack_id, "HTTPUnauthorized"))
    /\ UNCHANGED <<pc, op, args, submitted, stack_id, stack_name, desc_in, stack_desc,
                   resources, idx, fips, ports, ip_map, ret, err, apps>>
    /\ UNCHANGED <<sec_group_ports, race>>

\* line 552 without the test
ResourcesAlways(res) == TRUE

\* line 552: the truth value of alloc's resources, None or a description table
ResourcesTruthy(res) == res["kind"] = "desc" /\ DOMAIN res["val"] # {}

\* what line 553 stores
StoredValue(res) == IF res["kind"] = "desc" THEN res["val"] ELSE NoneVal

\* line 553 keeping the table the registry already holds for the cluster
StoreIfAbsent(registry, cluster_uuid, res) ==
    IF cluster_uuid \in DOMAIN registry THEN registry
    ELSE Put(registry, cluster_uuid, StoredValue(res))

\* line 553: self.apps[cluster_uuid] = resources
Store(registry, cluster_uuid, res) == Put(registry, cluster_uuid, StoredValue(res))

\* lines 552-578 with the store of line 553 moved behind the launcher loop: the
\* exception of line 554 comes first
AllocTailStoresLate(res) ==
    IF ResourcesTruthy(res)
    THEN /\ err' = "AttributeError"
         /\ pc' = "raised"
         /\ UNCHANGED <<ret, apps>>
    ELSE /\ ret' = PyList(<<>>)
         /\ pc' = "done"
         /\ UNCHANGED <<apps, err>>

\* alloc from line 549 on, res the value of _create_app_stack.  With resources the
\* table is stored (line 553) and line 554 calls self._get_servers, a method the
\* class does not define: AttributeError.  Without, line 578 returns the empty list.
AllocTail(res) ==
    IF ResourcesTruthy(res)
    THEN /\ apps' = Store(apps, args["cluster_uuid"], res)
         /\ err' = "AttributeError"
         /\ pc' = "raised"
         /\ UNCHANGED ret
    ELSE /\ ret' = PyList(<<>>)
         /\ pc' = "done"
         /\ UNCHANGED <<apps, err>>

\* lines 360-363 absent: a terminal status is slept on like a pending one
PollTerminalSpins(status) ==
    /\ pc = "poll"
    /\ Len(reads) < MaxPolls
    /\ calls' = Append(calls, Get(stack_id, status))
    /\ UNCHANGED <<pc, op, args, submitted, stack_id, stack_name, desc_in, stack_desc,
                   resources, idx, fips, ports, ip_map, ret, err, apps>>
    /\ UNCHANGED <<sec_group_ports, race>>

\* line 359 answers a terminal status and _wait_for_stack returns.  True: its caller
\* _launch_heat_plan goes on to line 324.  False: _launch_heat_plan returns None
\* (lines 319-321), _create_app_stack falls off its end (line 463) with None.
PollTerminal(status) ==
    /\ pc = "poll"
    /\ calls' = Append(calls, Get(stack_id, status))
    /\ IF op = "wait"
       THEN /\ ret' = PyBool(_wait_for_stack_result(status))
            /\ pc' = "done"
            /\ UNCHANGED <<apps, err>>
       ELSE IF _wait_for_stack_result(status)
       THEN /\ pc' = "collect"
            /\ UNCHANGED <<ret, apps, err>>
       ELSE IF op = "launch"
       THEN /\ ret' = PyNone
            /\ pc' = "done"
            /\ UNCHANGED <<apps, err>>
       ELSE AllocTail(PyNone)
    /\ UNCHANGED <<op, args, submitted, stack_id, stack_name, desc_in, stack_desc,
                   resources, idx, fips, ports, ip_map>>
    /\ UNCHANGED <<sec_group_ports, race>>

PollComplete == PollTerminal("COMPLETE")

PollFailed == PollTerminal("FAILED")

\* a call of _wait_for_stack(stack_id)
WaitCall ==
    /\ pc = "idle"
    /\ \E sid \in StackIds :
          /\ stack_id' = sid
          /\ args' = [stack_id |-> sid]
    /\ op' = "wait"
    /\ pc' = "poll"
    /\ UNCHANGED <<calls, submitted, stack_name, desc_in, stack_desc,
                   resources, idx, fips, ports, ip_map, ret, err, apps>>
    /\ UNCHANGED <<sec_group_ports, race>>

(***************************************************************************)
(* _delete_stack                                                           *)
(***************************************************************************)
IsFloatingIp(r) == r["resource_type"] = "OS::Neutron::FloatingIP"

\* the loop of lines 585-587 started one entry late
FloatingIpsAfter(rs, i) == {j \in (i + 1)..Len(rs) : IsFloatingIp(rs[j])}

\* the positions from i on that hold a floating IP
FloatingIpsFrom(rs, i) == {j \in i..Len(rs) : IsFloatingIp(rs[j])}

Min(S) == CHOOSE m \in S : \A n \in S : m <= n

Disassociate(r) ==
    [api |-> "neutron.update_floatingip",
     arg |-> r["physical_resource_id"],
     body |-> [floatingip |-> [port_id |-> NoneVal]]]

\* a call of _delete_stack(stack_id): line 584 lists the resources
DeleteCall ==
    /\ pc = "idle"
    /\ \E sid \in StackIds, l \in Listings :
          /\ stack_id' = sid
          /\ args' = [stack_id |-> sid]
          /\ resources' = l
          /\ calls' = Append(calls, Call("heat.resources.list", sid))
    /\ op' = "delete"
    /\ idx' = 1
    /\ pc' = "del_loop"
    /\ UNCHANGED <<submitted, stack_name, desc_in, stack_desc,
                   fips, ports, ip_map, ret, err, apps>>
    /\ UNCHANGED <<sec_group_ports, race>>

\* lines 585-587: the loop runs on to the next floating IP and disassociates it
DeleteDisassociate ==
    /\ pc = "del_loop"
    /\ FloatingIpsFrom(resources, idx) # {}
    /\ LET j == Min(FloatingIpsFrom(resources, idx))
       IN  /\ calls' = Append(calls, Disassociate(resources[j]))
           /\ idx' = j + 1
    /\ UNCHANGED <<pc, op, args, submitted, stack_id, stack_name, desc_in,
                   stack_desc, resources, fips, ports, ip_map, ret, err, apps>>
    /\ UNCHANGED <<sec_group_ports, race>>

\* the update_floatingip call that raised
DisassociateRaised(r) ==
    [api |-> "neutron.update_floatingip",
     arg |-> r["physical_resource_id"],
     body |-> [floatingip |-> [port_id |-> NoneVal]],
     out |-> "NeutronClientException"]

\* line 587 inside a try whose handler passes: the loop goes on after the exception
DeleteDisassociateSwallowed ==
    /\ pc = "del_loop"
    /\ FloatingIpsFrom(resources, idx) # {}
    /\ LET j == Min(FloatingIpsFrom(resources, idx))
       IN  /\ calls' = Append(calls, DisassociateRaised(resources[j]))
           /\ idx' = j + 1
    /\ UNCHANGED <<pc, op, args, submitted, stack_id, stack_name, desc_in,
                   stack_desc, resources, fips, ports, ip_map, ret, err, apps>>
    /\ UNCHANGED <<sec_group_ports, race>>

\* line 587 raises: nothing in _delete_stack catches it, the call ends with the
\* exception of Neutron and line 590 is not reached
DeleteDisassociateRaises ==
    /\ pc = "del_loop"
    /\ FloatingIpsFrom(resources, idx) # {}
    /\ LET j == Min(FloatingIpsFrom(resources, idx))
       IN  /\ calls' = Append(calls, DisassociateRaised(resources[j]))
           /\ idx' = j
    /\ err' = "NeutronClientException"
    /\ pc' = "raised"
    /\ UNCHANGED <<op, args, submitted, stack_id, stack_name, desc_in,
                   stack_desc, resources, fips, ports, ip_map, ret, apps>>
    /\ UNCHANGED <<sec_group_ports, race>>

\* line 590 followed by a reset of the registry
DeleteStackForgetsAll ==
    /\ pc = "del_loop"
    /\ FloatingIpsFrom(resources, idx) = {}
    /\ calls' = Append(calls, Call("heat.stacks.delete", stack_id))
    /\ idx' = Len(resources) + 1
    /\ ret' = PyNone
    /\ pc' = "done"
    /\ apps' = EmptyDict
    /\ UNCHANGED <<op, args, submitted, stack_id, stack_name, desc_in,
                   stack_desc, resources, fips, ports, ip_map, err>>
    /\ UNCHANGED <<sec_group_ports, race>>

\* line 590: the loop is over, the stack is deleted
DeleteStack ==
    /\ pc = "del_loop"
    /\ FloatingIpsFrom(resources, idx) = {}
    /\ calls' = Append(calls, Call("heat.stacks.delete", stack_id))
    /\ idx' = Len(resources) + 1
    /\ ret' = PyNone
    /\ pc' = "done"
    /\ UNCHANGED <<op, args, submitted, stack_id, stack_name, desc_in,
                   stack_desc, resources, fips, ports, ip_map, err, apps>>
    /\ UNCHANGED <<sec_group_ports, race>>

(***************************************************************************)
(* _create_instance_plan called on its own                                 *)
(***************************************************************************)
PlanCall ==
    /\ pc = "idle"
    /\ \E c \in Clusters, n \in 0..MaxInstances, t \in CTypes :
          LET r == _create_instance_plan(c, n, default_image, default_personality,
                                         sec_group_name(c), t)
          IN  /\ args' = [cluster_uuid |-> c, num_instances |-> n, ctype |-> t]
              /\ IF r.err # "none"
                 THEN /\ err' = r.err
                      /\ pc' = "raised"
                      /\ UNCHANGED ret
                 ELSE /\ ret' = [kind |-> "plan", plan |-> r.plan, desc |-> r.desc]
                      /\ pc' = "done"
                      /\ UNCHANGED err
    /\ op' = "plan"
    /\ UNCHANGED <<calls, submitted, stack_id, stack_name, desc_in, stack_desc,
                   resources, idx, fips, ports, ip_map, apps>>
    /\ UNCHANGED <<sec_group_ports, race>>

(***************************************************************************)
(* _launch_heat_plan                                                       *)
(***************************************************************************)
\* lines 325-327 writing the logical id where the physical id belongs
RECURSIVE FillLogicalIds(_, _, _)
FillLogicalIds(desc, rs, i) ==
    IF i > Len(rs) THEN desc
    ELSE LET lid == rs[i]["logical_resource_id"]
         IN  FillLogicalIds(IF lid \in DOMAIN desc
                            THEN Put(desc, lid, Put(desc[lid], "id", lid))
                            ELSE desc,
                            rs, i + 1)

\* lines 325-327: the physical ids of the listed resources the table knows
RECURSIVE FillIds(_, _, _)
FillIds(desc, rs, i) ==
    IF i > Len(rs) THEN desc
    ELSE LET lid == rs[i]["logical_resource_id"]
         IN  FillIds(IF lid \in DOMAIN desc
                     THEN Put(desc, lid, Put(desc[lid], "id", rs[i]["physical_resource_id"]))
                     ELSE desc,
                     rs, i + 1)

\* lines 331-332 recording the name of the stack as its identifier
StackEntryByName(name, sid) == [id |-> name, type |-> "OS::Heat::Stack"]

\* lines 331-332: the entry of the stack itself
StackEntry(name, sid) == [id |-> sid, type |-> "OS::Heat::Stack"]

\* lines 324-333: the table _launch_heat_plan returns for the listing rs
LaunchedDesc(name, sid, desc, rs) == Put(FillIds(desc, rs, 1), name, StackEntry(name, sid))

RECURSIVE BuiltInstances(_, _, _)
BuiltInstances(cluster_uuid, ctype, k) ==
    IF k = 0 THEN Ok(EmptyDict, EmptyDict)
    ELSE LET rest == BuiltInstances(cluster_uuid, ctype, k - 1)
             inst == InstanceFragment(instance_name(cluster_uuid, ctype, k - 1),
                                      default_image, default_personality,
                                      manage_network, sec_group_name(cluster_uuid))
         IN  Ok(Merge(rest.plan, inst.plan), Merge(rest.desc, inst.desc))

\* a plan and a table of the shape the builders write (lines 234-246, 127, 285) for
\* k instances, with a floating IP per port or none: what a caller hands to
\* _launch_heat_plan and _collect_network_info
BuiltStack(cluster_uuid, ctype, k, with_ip) ==
    LET inst == BuiltInstances(cluster_uuid, ctype, k)
        sec == _create_security_plan(cluster_uuid, <<>>)
        ifaces == [i \in 1..k |-> port_name(instance_name(cluster_uuid, ctype, i - 1))]
        ip == IF with_ip THEN _create_floatingip_plan(cluster_uuid, ifaces)
              ELSE Ok(Envelope(EmptyDict), EmptyDict)
    IN  [stack_name |-> app_stack_name(cluster_uuid, ctype),
         heat_plan |-> Envelope(Merge(Merge(sec.plan.Resources, ip.plan.Resources), inst.plan)),
         stack_desc |-> Merge(Merge(inst.desc, sec.desc), ip.desc)]

BuiltStacks ==
    {BuiltStack(c, t, k, w) : c \in Clusters, t \in CTypes, k \in 0..MaxInstances, w \in BOOLEAN}

\* a call of _launch_heat_plan(stack_name, heat_plan, stack_desc): line 318 creates
\* the stack, and Heat answers with its identifier
LaunchCall ==
    /\ pc = "idle"
    /\ \E b \in BuiltStacks, sid \in StackIds :
          /\ args' = b
          /\ stack_name' = b.stack_name
          /\ desc_in' = b.stack_desc
          /\ stack_desc' = b.stack_desc
          /\ submitted' = Append(submitted, [stack_name |-> b.stack_name, template |-> b.heat_plan])
          /\ calls' = Append(calls, Call("heat.stacks.create", b.stack_name))
          /\ stack_id' = sid
    /\ op' = "launch"
    /\ pc' = "poll"
    /\ UNCHANGED <<resources, idx, fips, ports, ip_map, ret, err, apps>>
    /\ UNCHANGED <<sec_group_ports, race>>

\* lines 324-333: the stack is COMPLETE, its resources are listed and the table is
\* filled.  Inside alloc the table goes back to _create_app_stack, whose line 463
\* sends a non-empty one on to _collect_network_info.
Collect ==
    /\ pc = "collect"
    /\ \E l \in Listings :
          LET d == LaunchedDesc(stack_name, stack_id, stack_desc, l)
          IN  /\ calls' = Append(calls, Call("heat.resources.list", stack_id))
              /\ stack_desc' = d
              /\ IF op = "launch"
                 THEN /\ resources' = l
                      /\ ret' = PyDesc(d)
                      /\ pc' = "done"
                      /\ UNCHANGED <<apps, err>>
                 ELSE /\ resources' = <<>>
                      /\ IF DOMAIN d # {}
                         THEN /\ pc' = "netinfo"
                              /\ UNCHANGED <<ret, apps, err>>
                         ELSE AllocTail(PyNone)
    /\ UNCHANGED <<op, args, submitted, stack_id, stack_name, desc_in,
                   idx, fips, ports, ip_map>>
    /\ UNCHANGED <<sec_group_ports, race>>

(***************************************************************************)
(* _collect_network_info                                                   *)
(***************************************************************************)
\* lines 396-400: fixed address -> floating address, of the bound floating IPs
RECURSIVE BuildIpMap(_, _, _)
BuildIpMap(fs, i, m) ==
    IF i > Len(fs) THEN m
    ELSE BuildIpMap(fs, i + 1,
                    IF Truthy(fs[i]["fixed_ip_address"])
                    THEN Put(m, fs[i]["fixed_ip_address"], fs[i]["floating_ip_address"])
                    ELSE m)

\* lines 408-415: the entry of one listed port
PortEntry(e, p, m) ==
    LET e1 == Put(e, "subnet", p["fixed_ips"][1]["subnet_id"])
        e2 == Put(e1, "ip_address", p["fixed_ips"][1]["ip_address"])
    IN  IF e2["ip_address"] \in DOMAIN m
        THEN Put(e2, "floating_ip", m[e2["ip_address"]])
        ELSE e2

\* lines 406-415: the pass over the listed ports
RECURSIVE PortPass(_, _, _, _)
PortPass(desc, ps, i, m) ==
    IF i > Len(ps) THEN desc
    ELSE PortPass(IF ps[i]["name"] # "" /\ ps[i]["name"] \in DOMAIN desc
                  THEN Put(desc, ps[i]["name"], PortEntry(desc[ps[i]["name"]], ps[i], m))
                  ELSE desc,
                  ps, i + 1, m)

\* a call of _collect_network_info(stack_desc)
NetInfoCall ==
    /\ pc = "idle"
    /\ \E b \in BuiltStacks :
          /\ args' = [stack_desc |-> b.stack_desc]
          /\ desc_in' = b.stack_desc
          /\ stack_desc' = b.stack_desc
    /\ op' = "netinfo"
    /\ pc' = "netinfo"
    /\ UNCHANGED <<calls, submitted, stack_id, stack_name, resources, idx,
                   fips, ports, ip_map, ret, err, apps>>
    /\ UNCHANGED <<sec_group_ports, race>>

\* lines 396-400: the floating IPs are listed and the map is built
NetFloatingIps ==
    /\ pc = "netinfo"
    /\ \E fs \in FloatingIpListings :
          /\ fips' = fs
          /\ ip_map' = BuildIpMap(fs, 1, EmptyDict)
    /\ calls' = Append(calls, Call("neutron.list_floatingips", NoneVal))
    /\ pc' = "netports"
    /\ UNCHANGED <<op, args, submitted, stack_id, stack_name, desc_in, stack_desc,
                   resources, idx, ports, ret, err, apps>>
    /\ UNCHANGED <<sec_group_ports, race>>

\* lines 405-416: the ports are listed, the pass runs and the table is returned;
\* inside alloc it is the value of _create_app_stack (line 464)
NetPorts ==
    /\ pc = "netports"
    /\ calls' = Append(calls, Call("neutron.list_ports", NoneVal))
    /\ \E ps \in PortListings :
          LET d == PortPass(stack_desc, ps, 1, ip_map)
          IN  /\ stack_desc' = d
              /\ IF op = "netinfo"
                 THEN /\ ports' = ps
                      /\ ret' = PyDesc(d)
                      /\ pc' = "done"
                      /\ UNCHANGED <<fips, ip_map, apps, err>>
                 ELSE /\ ports' = <<>>
                      /\ fips' = <<>>
                      /\ ip_map' = EmptyDict
                      /\ AllocTail(PyDesc(d))
    /\ UNCHANGED <<op, args, submitted, stack_id, stack_name, desc_in, resources, idx>>
    /\ UNCHANGED <<sec_group_ports, race>>

(***************************************************************************)
(* _get_private_ip and _get_public_ip                                      *)
(***************************************************************************)
PyStr(s) == [kind |-> "str", val |-> s]

\* the value a lookup returns: the address, or None when it falls off its loop
Found(v) == [err |-> "none", val |-> v]

\* lines 470-473 from port i on: resources[port_name] and port_desc["subnet"] are
\* plain subscripts, a missing key raises KeyError
RECURSIVE PrivateIpFrom(_, _, _, _)
PrivateIpFrom(server, subnet_id, res, i) ==
    IF i > Len(server["ports"]) THEN Found(NoneVal)
    ELSE IF server["ports"][i] \notin DOMAIN res THEN [err |-> "KeyError", val |-> NoneVal]
    ELSE LET port_desc == res[server["ports"][i]]
         IN  IF "subnet" \notin DOMAIN port_desc THEN [err |-> "KeyError", val |-> NoneVal]
             ELSE IF port_desc["subnet"] = subnet_id
             THEN IF "ip_address" \notin DOMAIN port_desc
                  THEN [err |-> "KeyError", val |-> NoneVal]
                  ELSE Found(port_desc["ip_address"])
             ELSE PrivateIpFrom(server, subnet_id, res, i + 1)

\* lines 466-473
_get_private_ip(server, subnet_id, res) == PrivateIpFrom(server, subnet_id, res, 1)

\* lines 479-482 from port i on: the field is tested with "in" before it is read
RECURSIVE PublicIpFrom(_, _, _)
PublicIpFrom(server, res, i) ==
    IF i > Len(server["ports"]) THEN Found(NoneVal)
    ELSE IF server["ports"][i] \notin DOMAIN res THEN [err |-> "KeyError", val |-> NoneVal]
    ELSE LET port_desc == res[server["ports"][i]]
         IN  IF "floating_ip" \in DOMAIN port_desc
             THEN Found(port_desc["floating_ip"])
             ELSE PublicIpFrom(server, res, i + 1)

\* lines 475-482
_get_public_ip(server, res) == PublicIpFrom(server, res, 1)

\* the tables _collect_network_info returns for the tables of the builders
ReconciledTables ==
    {PortPass(b.stack_desc, ps, 1, BuildIpMap(fs, 1, EmptyDict)) :
        b \in BuiltStacks, fs \in FloatingIpListings, ps \in PortListings}

\* the instance entries of a table
Servers(res) == {k \in DOMAIN res : res[k]["type"] = "OS::Nova::Server"}

\* subnet ids a caller asks for: the one of self.subnet (line 497) and the one
\* the listed ports are on
SubnetIds == {subnet["id"], "subnet-1"}

\* the end of a lookup: the exception, None or the address
LookupEnd(r) ==
    IF r.err # "none"
    THEN /\ err' = r.err
         /\ pc' = "raised"
         /\ UNCHANGED ret
    ELSE /\ ret' = IF r.val = NoneVal THEN PyNone ELSE PyStr(r.val)
         /\ pc' = "done"
         /\ UNCHANGED err

\* a call of _get_private_ip(server, subnet_id, resources)
GetPrivateIpCall ==
    /\ pc = "idle"
    /\ op' = "private_ip"
    /\ \E res \in ReconciledTables, sn \in SubnetIds :
          \E k \in Servers(res) :
             /\ args' = [server |-> res[k], subnet_id |-> sn, resources |-> res]
             /\ LookupEnd(_get_private_ip(res[k], sn, res))
    /\ UNCHANGED <<calls, submitted, stack_id, stack_name, desc_in, stack_desc,
                   resources, idx, fips, ports, ip_map, apps, sec_group_ports, race>>

\* a call of _get_public_ip(server, resources)
GetPublicIpCall ==
    /\ pc = "idle"
    /\ op' = "public_ip"
    /\ \E res \in ReconciledTables :
          \E k \in Servers(res) :
             /\ args' = [server |-> res[k], resources |-> res]
             /\ LookupEnd(_get_public_ip(res[k], res))
    /\ UNCHANGED <<calls, submitted, stack_id, stack_name, desc_in, stack_desc,
                   resources, idx, fips, ports, ip_map, apps, sec_group_ports, race>>

(***************************************************************************)
(* _create_app_stack and alloc                                             *)
(***************************************************************************)
\* container descriptions given to alloc; a key may be missing
ContainerSpecs ==
    { [ports |-> << <<"8", "0", "8", "0", ":", "8", "0">>, <<"4", "4", "3">> >>],
      [ports |-> << <<"8", "0">> >>,
       exposed |-> << <<"8", "0", "8", "0", "-", "8", "0", "9", "0">>, <<"2", "2">> >>],
      [exposed |-> << <<"2", "2">> >>] }

ContainerInfos == UNION {[1..k -> ContainerSpecs] : k \in 0..MaxInstances}

\* lines 515-519 taking the part before the colon, the host port
ConnectorRuleHost(p) ==
    LET s == Split(p, ":")
    IN  <<s[1], s[1]>>

\* lines 515-519: the rule of one port-map entry of a connector
ConnectorRule(p) ==
    LET s == Split(p, ":")
    IN  IF Len(s) > 1 THEN <<s[2], s[2]>> ELSE <<s[1], s[1]>>

\* lines 534-538 without the range branch
ExposedRuleSingle(p) ==
    LET s == Split(p, "-")
    IN  <<s[1], s[1]>>

\* lines 534-538: the rule of one exposed port or port range
ExposedRule(p) ==
    LET s == Split(p, "-")
    IN  IF Len(s) = 1 THEN <<s[1], s[1]>> ELSE <<s[1], s[2]>>

\* lines 513-519: the rules of containers i.. of a connector; c['ports'] of a
\* container without the key raises KeyError
RECURSIVE ConnectorRules(_, _)
ConnectorRules(container_info, i) ==
    IF i > Len(container_info) THEN [err |-> "none", rules |-> <<>>]
    ELSE IF "ports" \notin DOMAIN container_info[i] THEN [err |-> "KeyError", rules |-> <<>>]
    ELSE LET rest == ConnectorRules(container_info, i + 1)
             mine == [j \in 1..Len(container_info[i]["ports"]) |->
                         ConnectorRule(container_info[i]["ports"][j])]
         IN  IF rest.err # "none" THEN rest
             ELSE [err |-> "none", rules |-> mine \o rest.rules]

\* lines 508-538: [err, floating_ip, sec_group_ports]
PortPolicy(container_info, ctype, proxy) ==
    IF ctype = "connector"
    THEN LET r == ConnectorRules(container_info, 1)
         IN  [err |-> r.err, floating_ip |-> TRUE, sec_group_ports |-> r.rules]
    ELSE IF Len(container_info) = 0
    THEN [err |-> "IndexError", floating_ip |-> ~proxy, sec_group_ports |-> <<>>]
    ELSE IF "exposed" \notin DOMAIN container_info[1]
    THEN [err |-> "KeyError", floating_ip |-> ~proxy, sec_group_ports |-> <<>>]
    ELSE [err |-> "none", floating_ip |-> ~proxy,
          sec_group_ports |-> [j \in 1..Len(container_info[1]["exposed"]) |->
                                  ExposedRule(container_info[1]["exposed"][j])]]

\* lines 442-444: the keys of the management ports
ManagePorts(desc) ==
    {k \in DOMAIN desc : desc[k]["type"] = "OS::Neutron::Port" /\ desc[k]["role"] = "manage"}

\* the orders in which a dict may hand out the keys S
Orders(S) == {s \in InjSeqs(S, Cardinality(S)) : Len(s) = Cardinality(S)}

\* lines 451-453 with the fragments concatenated in the opposite order
ComposeResourcesFirstWins(sec, ip, inst) == Merge(Merge(inst, ip), sec)

\* lines 451-453: dict(sec.items() + ip.items() + stack.items()), later items win
ComposeResources(sec, ip, inst) == Merge(Merge(sec, ip), inst)

\* lines 425-458: the composed plan and table, [err, stack_name, heat_plan, stack_desc];
\* ifaces is the order in which line 442 meets the management ports
_create_app_stack(cluster_uuid, num_instances, sg_ports, assign_floating_ip, ctype, ifaces) ==
    LET sec == _create_security_plan(cluster_uuid, sg_ports)
        inst == _create_instance_plan(cluster_uuid, num_instances, default_image,
                                      default_personality, sec_group_name(cluster_uuid), ctype)
        ip == IF assign_floating_ip THEN _create_floatingip_plan(cluster_uuid, ifaces)
              ELSE Ok([Resources |-> EmptyDict], EmptyDict)
    IN  IF inst.err # "none"
        THEN [err |-> inst.err]
        ELSE [err |-> "none",
              stack_name |-> app_stack_name(cluster_uuid, ctype),
              heat_plan |-> [inst.plan EXCEPT !.Resources =
                                ComposeResources(sec.plan.Resources, ip.plan.Resources,
                                                 inst.plan.Resources)],
              stack_desc |-> Merge(Merge(inst.desc, sec.desc), ip.desc)]

\* the management ports of the instance table, which line 442 walks
InstancePorts(cluster_uuid, num_instances, ctype) ==
    LET inst == _create_instance_plan(cluster_uuid, num_instances, default_image,
                                      default_personality, sec_group_name(cluster_uuid), ctype)
    IN  IF inst.err # "none" THEN {} ELSE ManagePorts(inst.desc)

\* the interface lists _create_app_stack hands over (lines 441-444): the management
\* ports of an instance table, in an order the dict may give its keys
InterfaceLists ==
    UNION {Orders(ManagePorts(BuiltInstances(c, t, k).desc)) :
              c \in Clusters, t \in CTypes, k \in 0..MaxInstances}

\* a call of _create_floatingip_plan(cluster_uuid, ifaces)
FloatingIpPlanCall ==
    /\ pc = "idle"
    /\ op' = "fipplan"
    /\ \E c \in Clusters, ifaces \in InterfaceLists :
          LET r == _create_floatingip_plan(c, ifaces)
          IN  /\ args' = [cluster_uuid |-> c, ifaces |-> ifaces]
              /\ ret' = [kind |-> "plan", plan |-> r.plan, desc |-> r.desc]
    /\ pc' = "done"
    /\ UNCHANGED <<calls, submitted, stack_id, stack_name, desc_in, stack_desc, resources,
                   idx, fips, ports, ip_map, err, apps, sec_group_ports, race>>

\* the port pairs alloc hands to the security group (line 427): what lines 508-538
\* derive from the container lists
SecurityGroupPorts ==
    {PortPolicy(ci, t, FALSE).sec_group_ports : ci \in ContainerInfos, t \in CTypes}

\* a call of _create_security_group(group_name, ports)
SecurityGroupCall ==
    /\ pc = "idle"
    /\ op' = "secgroup"
    /\ \E c \in Clusters, ps \in SecurityGroupPorts :
          /\ args' = [group_name |-> sec_group_name(c), ports |-> ps]
          /\ ret' = PyDesc(_create_security_group(sec_group_name(c), ps))
    /\ pc' = "done"
    /\ UNCHANGED <<calls, submitted, stack_id, stack_name, desc_in, stack_desc, resources,
                   idx, fips, ports, ip_map, err, apps, sec_group_ports, race>>

\* logical names two fragments may both use
SharedNames == {sec_group_name("c1"), ip_name("c1", 0)}

\* the definitions the three builders write under a name
SecurityDefinition(n) == _create_security_group(n, <<>>)[n]

FloatingIpDefinition(n) == _create_floating_ip(n, port_name(n)).plan[n]

PortDefinition(n) == _create_port(n, manage_network, sec_group_name("c1"), FALSE)[n]

\* resource fragments over the shared names, of the security-group, the floating-IP
\* and the instance builder
SecurityFragments == {[n \in S |-> SecurityDefinition(n)] : S \in SUBSET SharedNames}

FloatingIpFragments == {[n \in S |-> FloatingIpDefinition(n)] : S \in SUBSET SharedNames}

InstanceFragments == {[n \in S |-> PortDefinition(n)] : S \in SUBSET SharedNames}

\* lines 451-453 on three fragments: the composition of _create_app_stack applied to
\* the Resources of a security-group, a floating-IP and an instance plan
ComposeCall ==
    /\ pc = "idle"
    /\ op' = "compose"
    /\ \E sec \in SecurityFragments, ip \in FloatingIpFragments, inst \in InstanceFragments :
          /\ args' = [sec |-> sec, ip |-> ip, inst |-> inst]
          /\ ret' = [kind |-> "plan",
                     plan |-> Envelope(ComposeResources(sec, ip, inst)),
                     desc |-> EmptyDict]
    /\ pc' = "done"
    /\ UNCHANGED <<calls, submitted, stack_id, stack_name, desc_in, stack_desc, resources,
                   idx, fips, ports, ip_map, err, apps, sec_group_ports, race>>

\* a call of alloc(cluster_uuid, container_info, ctype, proxy) up to its first remote
\* call: the port rules (lines 508-538), the composed plan (lines 425-458) and
\* heat.stacks.create (line 318); an exception on the way ends the call
AllocCall ==
    /\ pc = "idle"
    /\ op' = "alloc"
    /\ \E c \in Clusters, ci \in ContainerInfos, t \in CTypes, pr \in BOOLEAN :
          LET pol == PortPolicy(ci, t, pr)
          IN  /\ args' = [cluster_uuid |-> c, container_info |-> ci, ctype |-> t, proxy |-> pr]
              /\ sec_group_ports' = pol.sec_group_ports
              /\ IF pol.err # "none"
                 THEN /\ err' = pol.err
                      /\ pc' = "raised"
                      /\ UNCHANGED <<calls, submitted, stack_id, stack_name, desc_in, stack_desc>>
                 ELSE \E ifaces \in Orders(InstancePorts(c, Len(ci), t)), sid \in StackIds :
                         LET st == _create_app_stack(c, Len(ci), pol.sec_group_ports,
                                                     pol.floating_ip, t, ifaces)
                         IN  IF st.err # "none"
                             THEN /\ err' = st.err
                                  /\ pc' = "raised"
                                  /\ UNCHANGED <<calls, submitted, stack_id, stack_name,
                                                 desc_in, stack_desc>>
                             ELSE /\ stack_name' = st.stack_name
                                  /\ desc_in' = st.stack_desc
                                  /\ stack_desc' = st.stack_desc
                                  /\ submitted' = Append(submitted,
                                         [stack_name |-> st.stack_name, template |-> st.heat_plan])
                                  /\ calls' = Append(calls, Call("heat.stacks.create", st.stack_name))
                                  /\ stack_id' = sid
                                  /\ err' = err
                                  /\ pc' = "poll"
    /\ UNCHANGED <<resources, idx, fips, ports, ip_map, ret, apps, race>>

Next ==
    \/ WaitCall
    \/ PollPending
    \/ PollUnauthorized
    \/ PollComplete
    \/ PollFailed
    \/ DeleteCall
    \/ DeleteDisassociate
    \/ DeleteDisassociateRaises
    \/ DeleteStack
    \/ PlanCall
    \/ LaunchCall
    \/ Collect
    \/ NetInfoCall
    \/ NetFloatingIps
    \/ NetPorts
    \/ GetPrivateIpCall
    \/ GetPublicIpCall
    \/ ComposeCall
    \/ SecurityGroupCall
    \/ FloatingIpPlanCall
    \/ AllocCall

Spec == Init /\ [][Next]_vars

\* The poll loop under the condition of its liveness: the loop never stops asking
\* (while True, line 357), the engine answers each stack with a terminal status in the
\* end, and before that only finitely many reads are pending or unauthorized (at most
\* MaxPolls here).  A terminal read that stays possible is therefore taken.
SpecLive == Init /\ [][Next]_vars /\ WF_vars(PollComplete \/ PollFailed)

(***************************************************************************)
(* Two threads in alloc at once.  Each thread has its own frame, kept in   *)
(* race[t]: where it is, the cluster_uuid line 553 uses as key, the stack  *)
(* it created and its table; self.apps is the one thing they share.  The   *)
(* second caller is the one that arrives while the first is still inside.  *)
(***************************************************************************)
\* the variables of the single caller, which the threads leave alone
single == <<pc, op, args, calls, submitted, stack_id, stack_name, desc_in, stack_desc,
            resources, idx, fips, ports, ip_map, ret, err, sec_group_ports>>

\* thread t is inside alloc
Running(t) == race[t]["pc"] \notin {"idle", "done", "raised"}

\* the stores made so far
Stores == Cardinality({t \in Threads : race[t]["stored"] > 0})

\* thread t calls alloc: lines 508-538, 425-458 and heat.stacks.create (line 318),
\* which answers with an identifier no other stack has
RaceAlloc(t) ==
    /\ race[t]["pc"] = "idle"
    /\ t = 1 \/ Running(1)
    /\ \E c \in Clusters, ci \in ContainerInfos, ty \in CTypes, pr \in BOOLEAN :
          LET pol == PortPolicy(ci, ty, pr)
              me == [race[t] EXCEPT !["args"] = [cluster_uuid |-> c]]
          IN  IF pol.err # "none"
              THEN race' = [race EXCEPT ![t] = [me EXCEPT !["pc"] = "raised", !["err"] = pol.err]]
              ELSE \E ifaces \in Orders(InstancePorts(c, Len(ci), ty)),
                      sid \in StackIds \ {race[u]["stack_id"] : u \in Threads} :
                      LET st == _create_app_stack(c, Len(ci), pol.sec_group_ports,
                                                  pol.floating_ip, ty, ifaces)
                      IN  IF st.err # "none"
                          THEN race' = [race EXCEPT ![t] =
                                           [me EXCEPT !["pc"] = "raised", !["err"] = st.err]]
                          ELSE race' = [race EXCEPT ![t] =
                                           [me EXCEPT !["pc"] = "poll",
                                                      !["stack_id"] = sid,
                                                      !["stack_name"] = st.stack_name,
                                                      !["stack_desc"] = st.stack_desc]]
    /\ UNCHANGED <<single, apps>>

\* the poll loop of thread t reads a terminal status (lines 359-363); FAILED makes
\* _create_app_stack yield None and alloc return the empty list (lines 552, 578).
\* The reads before it change nothing the threads share.
RacePoll(t) ==
    /\ race[t]["pc"] = "poll"
    /\ \E status \in TerminalStatuses :
          race' = [race EXCEPT ![t]["pc"] =
                      IF _wait_for_stack_result(status) THEN "collect" ELSE "done"]
    /\ UNCHANGED <<single, apps>>

\* lines 324-333 in thread t
RaceCollect(t) ==
    /\ race[t]["pc"] = "collect"
    /\ \E l \in Listings :
          race' = [race EXCEPT ![t]["stack_desc"] =
                      LaunchedDesc(race[t]["stack_name"], race[t]["stack_id"],
                                   race[t]["stack_desc"], l),
                                ![t]["pc"] = "netinfo"]
    /\ UNCHANGED <<single, apps>>

\* lines 396-416 in thread t: both listings and the pass over the ports
RaceNetwork(t) ==
    /\ race[t]["pc"] = "netinfo"
    /\ \E fs \in FloatingIpListings, ps \in PortListings :
          race' = [race EXCEPT ![t]["stack_desc"] =
                      PortPass(race[t]["stack_desc"], ps, 1, BuildIpMap(fs, 1, EmptyDict)),
                                ![t]["pc"] = "store"]
    /\ UNCHANGED single
    /\ UNCHANGED apps

\* lines 552-554 in thread t: the table is stored under the cluster_uuid and
\* self._get_servers raises AttributeError; stored numbers the stores in their order
RaceStore(t) ==
    /\ race[t]["pc"] = "store"
    /\ IF ResourcesTruthy(PyDesc(race[t]["stack_desc"]))
       THEN /\ apps' = Store(apps, race[t]["args"]["cluster_uuid"], PyDesc(race[t]["stack_desc"]))
            /\ race' = [race EXCEPT ![t]["pc"] = "raised",
                                    ![t]["err"] = "AttributeError",
                                    ![t]["stored"] = Stores + 1]
       ELSE /\ race' = [race EXCEPT ![t]["pc"] = "done"]
            /\ UNCHANGED apps
    /\ UNCHANGED single

RaceNext ==
    \/ \E t \in Threads : RaceAlloc(t)
    \/ \E t \in Threads : RacePoll(t)
    \/ \E t \in Threads : RaceCollect(t)
    \/ \E t \in Threads : RaceNetwork(t)
    \/ \E t \in Threads : RaceStore(t)

SpecRace == Init /\ [][RaceNext]_vars

\* the registry alloc("c1", [], "connector", proxy) leaves behind when Heat names the
\* stack stack-1, completes it and lists none of its resources (lines 541, 553)
StoredRegistry ==
    LET st == _create_app_stack("c1", 0, <<>>, TRUE, "connector", <<>>)
    IN  Put(EmptyDict, "c1", LaunchedDesc(st.stack_name, "stack-1", st.stack_desc, <<>>))

\* a launcher that is fresh, or that has served that alloc before
InitRegistry ==
    /\ NoCall
    /\ apps \in {EmptyDict, StoredRegistry}

\* the calls a launcher serves once an application may be registered
SpecRegistry == InitRegistry /\ [][Next]_vars

(***************************************************************************)
(* Properties.                                                             *)
(***************************************************************************)
Ended == pc \in {"done", "raised"}

\* the positions of the log that hold a call of api
CallsOf(api) == {i \in DOMAIN calls : calls[i]["api"] = api}

Last(s) == s[Len(s)]

\* C1: _wait_for_stack returns at the first terminal status it reads, True iff that
\* status is COMPLETE and False iff it is FAILED, and makes no heat.stacks.get call
\* after it: every read but the last is non-terminal, the call has returned exactly
\* when the last read is terminal, and the log holds nothing but the reads.
C1_WaitReturnsAtFirstTerminal ==
    op = "wait" =>
        /\ Len(calls) = Len(reads)
        /\ \A i \in 1..(Len(reads) - 1) : reads[i] \notin TerminalStatuses
        /\ pc = "done" <=> (Len(reads) > 0 /\ Last(reads) \in TerminalStatuses)
        /\ pc = "done" =>
              /\ ret["kind"] = "bool"
              /\ ret["val"] = TRUE <=> Last(reads) = "COMPLETE"
              /\ ret["val"] = FALSE <=> Last(reads) = "FAILED"

\* C1 witness: IN_PROGRESS, IN_PROGRESS, COMPLETE was read and True returned
C1_Witness ==
    /\ op = "wait"
    /\ pc = "done"
    /\ reads = <<"IN_PROGRESS", "IN_PROGRESS", "COMPLETE">>
    /\ ret["val"] = TRUE

\* C2: when _delete_stack has returned, every listed resource of floating-IP type
\* was disassociated (update_floatingip with port_id None) exactly once, no other
\* resource was, and heat.stacks.delete was called exactly once, as the last call.
C2_DisassociateThenDelete ==
    (op = "delete" /\ pc = "done") =>
        /\ \A r \in Range(resources) :
              Cardinality({i \in CallsOf("neutron.update_floatingip") :
                              /\ calls[i]["arg"] = r["physical_resource_id"]
                              /\ calls[i]["body"]["floatingip"]["port_id"] = NoneVal})
                 = IF r["resource_type"] = "OS::Neutron::FloatingIP" THEN 1 ELSE 0
        /\ Cardinality(CallsOf("neutron.update_floatingip"))
              = Cardinality({r \in Range(resources) :
                                r["resource_type"] = "OS::Neutron::FloatingIP"})
        /\ CallsOf("heat.stacks.delete") = {Len(calls)}
        /\ Last(calls)["arg"] = stack_id

\* C2 witness: two floating IPs and three other resources, the floating IPs listed
\* second and last
C2_Witness ==
    /\ op = "delete"
    /\ pc = "done"
    /\ Len(resources) = 5
    /\ {i \in 1..5 : resources[i]["resource_type"] = "OS::Neutron::FloatingIP"} = {2, 5}

\* C3: in alloc, once the stack was read FAILED the call has returned the empty
\* list, apps holds no entry, and neither the network listings nor the resource
\* listing nor the workload launcher was called.
C3_FailedStackLaunchesNothing ==
    (op = "alloc" /\ "FAILED" \in Range(reads)) =>
        /\ pc = "done"
        /\ ret["kind"] = "list"
        /\ ret["val"] = <<>>
        /\ err = "none"
        /\ DOMAIN apps = {}
        /\ CallsOf("neutron.list_floatingips") = {}
        /\ CallsOf("neutron.list_ports") = {}
        /\ CallsOf("heat.resources.list") = {}
        /\ CallsOf("controller.execute_docker_containers") = {}

\* C3 witness: an alloc whose stack was created and then read FAILED
C3_Witness ==
    /\ op = "alloc"
    /\ pc = "done"
    /\ Len(submitted) = 1
    /\ Last(reads) = "FAILED"

\* C4: in _launch_heat_plan, once the stack was read FAILED the call has returned
\* None, heat.resources.list was not called, and the description table is the one
\* that was passed in.
C4_FailedLaunchReturnsNone ==
    (op = "launch" /\ "FAILED" \in Range(reads)) =>
        /\ pc = "done"
        /\ ret["kind"] = "none"
        /\ CallsOf("heat.resources.list") = {}
        /\ stack_desc = desc_in
        /\ stack_name \notin DOMAIN stack_desc

\* C4 witness: a launch with a table of several entries, read FAILED after a pending read
C4_Witness ==
    /\ op = "launch"
    /\ pc = "done"
    /\ Cardinality(DOMAIN desc_in) > 1
    /\ reads = <<"IN_PROGRESS", "FAILED">>

\* C5: when _launch_heat_plan has returned a table, every listed resource whose
\* logical id is a key of the table passed in has its physical id under "id" and
\* is otherwise unchanged; a listed resource whose logical id is no such key has
\* no entry; an entry that is not listed is unchanged.
C5_PhysicalIdsWritten ==
    (op = "launch" /\ pc = "done" /\ ret["kind"] = "desc") =>
        /\ \A r \in Range(resources) :
              LET lid == r["logical_resource_id"]
              IN  IF lid \in DOMAIN desc_in
                  THEN /\ ret["val"][lid]["id"] = r["physical_resource_id"]
                       /\ \A f \in DOMAIN desc_in[lid] : ret["val"][lid][f] = desc_in[lid][f]
                       /\ DOMAIN ret["val"][lid] = DOMAIN desc_in[lid] \cup {"id"}
                  ELSE lid \notin DOMAIN ret["val"]
        /\ \A k \in DOMAIN desc_in :
              (\A r \in Range(resources) : r["logical_resource_id"] # k)
                  => ret["val"][k] = desc_in[k]

\* C5 witness: the listing holds a resource the table knows and one it does not
C5_Witness ==
    /\ op = "launch"
    /\ pc = "done"
    /\ ret["kind"] = "desc"
    /\ \E r \in Range(resources) : r["logical_resource_id"] \in DOMAIN desc_in
    /\ \E r \in Range(resources) : r["logical_resource_id"] \notin DOMAIN desc_in

\* C6 as stated: the returned table holds, under the stack name, the identifier the
\* create call returned and the type "Stack"
C6_StackEntryTypeStack ==
    (op = "launch" /\ pc = "done" /\ ret["kind"] = "desc") =>
        /\ stack_name \in DOMAIN ret["val"]
        /\ ret["val"][stack_name] = [id |-> stack_id, type |-> "Stack"]

\* C6 as amended: the returned table holds, under the stack name, the identifier
\* the create call returned and the type "OS::Heat::Stack"
C6_StackEntryRecorded ==
    (op = "launch" /\ pc = "done" /\ ret["kind"] = "desc") =>
        /\ stack_name = args["stack_name"]
        /\ stack_name \in DOMAIN ret["val"]
        /\ ret["val"][stack_name] = [id |-> stack_id, type |-> "OS::Heat::Stack"]
        /\ stack_id \in StackIds

\* C6 witness: a launch that returned a table
C6_Witness ==
    /\ op = "launch"
    /\ pc = "done"
    /\ ret["kind"] = "desc"
    /\ Last(reads) = "COMPLETE"

\* the template carries a floating-IP resource
HasFloatingIp(template) ==
    \E k \in DOMAIN template["Resources"] :
        template["Resources"][k]["Type"] = "OS::Neutron::FloatingIP"

\* C7: an alloc for at least one container whose port rules could be derived has
\* submitted one template, and that template carries floating-IP resources iff
\* ctype is "connector" or proxy is false.
C7_FloatingIpPolicy ==
    (/\ op = "alloc"
     /\ Ended
     /\ Len(args["container_info"]) >= 1
     /\ PortPolicy(args["container_info"], args["ctype"], args["proxy"]).err = "none") =>
        /\ Len(submitted) = 1
        /\ HasFloatingIp(submitted[1]["template"])
              <=> (args["ctype"] = "connector" \/ ~args["proxy"])

\* the fixed addresses of the listed floating IPs that are bound
BoundFixed == {f["fixed_ip_address"] : f \in Range(fips)} \ {NoneVal}

\* the floating IPs are listed before the ports, once each, and the map exists
\* when the ports are listed
C8_MapBeforePorts ==
    /\ pc = "netports" =>
          /\ CallsOf("neutron.list_ports") = {}
          /\ Cardinality(CallsOf("neutron.list_floatingips")) = 1
          /\ DOMAIN ip_map = BoundFixed
    /\ pc = "done" =>
          \E i, j \in DOMAIN calls :
             /\ i < j
             /\ CallsOf("neutron.list_floatingips") = {i}
             /\ CallsOf("neutron.list_ports") = {j}

C9_EndToEndLaunch ==
    (/\ op = "alloc"
     /\ Ended
     /\ args["ctype"] # "connector"
     /\ ~args["proxy"]
     /\ Len(args["container_info"]) >= 1
     /\ \A i \in DOMAIN args["container_info"] :
           DOMAIN args["container_info"][i] = {"ports"}) =>
        /\ pc = "done"
        /\ Cardinality(CallsOf("controller.execute_docker_containers"))
              = Len(args["container_info"])
        /\ \A i \in CallsOf("controller.execute_docker_containers") :
              calls[i]["public_ip"] # NoneVal

\* the keys of the plan that hold a resource of the type
OfType(plan, type) == {k \in DOMAIN plan["Resources"] : plan["Resources"][k]["Type"] = type}

\* C10: _create_instance_plan for n instances returns a plan with exactly n compute
\* instances and n ports under 2n distinct names, each instance attached to one
\* port of the plan by reference and no port attached twice.
C10_InstancePlanComplete ==
    (op = "plan" /\ Ended) =>
        /\ pc = "done"
        /\ ret["kind"] = "plan"
        /\ Cardinality(OfType(ret["plan"], "OS::Nova::Server")) = args["num_instances"]
        /\ Cardinality(OfType(ret["plan"], "OS::Neutron::Port")) = args["num_instances"]
        /\ Cardinality(DOMAIN ret["plan"]["Resources"]) = 2 * args["num_instances"]
        /\ \A k \in OfType(ret["plan"], "OS::Nova::Server") :
              LET nets == ret["plan"]["Resources"][k]["Properties"]["networks"]
              IN  /\ Len(nets) = 1
                  /\ nets[1]["port"]["Ref"] \in OfType(ret["plan"], "OS::Neutron::Port")
                  /\ \A k2 \in OfType(ret["plan"], "OS::Nova::Server") \ {k} :
                        ret["plan"]["Resources"][k2]["Properties"]["networks"][1]["port"]
                           # nets[1]["port"]

\* every heat.stacks.get answered so far raised the authorization error
OnlyUnauthorized == reads # <<>> /\ \A i \in DOMAIN reads : reads[i] = "HTTPUnauthorized"

\* C11: while every heat.stacks.get raises the authorization error, _wait_for_stack has
\* neither returned nor reported an error: the call is still in the poll loop, and the
\* enclosing launch or alloc has listed no resource, read no network state and stored
\* no application.
C11_UnauthorizedKeepsPolling ==
    OnlyUnauthorized =>
        /\ pc = "poll"
        /\ ret["kind"] = "unset"
        /\ err = "none"
        /\ CallsOf("heat.resources.list") = {}
        /\ CallsOf("neutron.list_floatingips") = {}
        /\ CallsOf("neutron.list_ports") = {}
        /\ op = "alloc" => args["cluster_uuid"] \notin DOMAIN apps

\* alloc has created its stack and every poll so far raised the authorization error
C11_Witness ==
    /\ op = "alloc"
    /\ OnlyUnauthorized
    /\ Len(reads) = MaxPolls
    /\ pc = "poll"

\* the ports of the server the lookup was asked about
LookupPorts == {args["resources"][p] : p \in Range(args["server"]["ports"]) \cap DOMAIN args["resources"]}

\* C12: a lookup over a server whose ports the port listing did not return (no subnet,
\* ip_address or floating_ip field in their entries), and a public-IP lookup over a
\* server none of whose ports has a floating IP mapped, return None and raise nothing.
C12_LookupMissReturnsNone ==
    /\ (op = "private_ip" /\ Ended /\ \A e \in LookupPorts : "subnet" \notin DOMAIN e) =>
          (pc = "done" /\ ret["kind"] = "none")
    /\ (op = "public_ip" /\ Ended /\ \A e \in LookupPorts : "floating_ip" \notin DOMAIN e) =>
          (pc = "done" /\ ret["kind"] = "none")

\* alloc was called with containers whose port lists lines 508-538 can read
PortsReadable ==
    /\ op = "alloc"
    /\ IF args["ctype"] = "connector"
       THEN \A i \in DOMAIN args["container_info"] : "ports" \in DOMAIN args["container_info"][i]
       ELSE /\ Len(args["container_info"]) >= 1
            /\ "exposed" \in DOMAIN args["container_info"][1]

\* the port-map entries of containers i.. in input order
RECURSIVE PortEntries(_, _)
PortEntries(container_info, i) ==
    IF i > Len(container_info) THEN <<>>
    ELSE container_info[i]["ports"] \o PortEntries(container_info, i + 1)

\* the entries alloc derives its rules from
RuleEntries ==
    IF args["ctype"] = "connector" THEN PortEntries(args["container_info"], 1)
    ELSE args["container_info"][1]["exposed"]

\* the rule the examples of the port grammar give for an exposed port or range
ExposedExample(e) ==
    CASE e = <<"8", "0", "8", "0", "-", "8", "0", "9", "0">> ->
            << <<"8", "0", "8", "0">>, <<"8", "0", "9", "0">> >>
      [] e = <<"2", "2">> -> << <<"2", "2">>, <<"2", "2">> >>

\* the rule the examples give for a port-map entry of a connector
ConnectorExample(e) ==
    CASE e = <<"8", "0", "8", "0", ":", "8", "0">> -> << <<"8", "0">>, <<"8", "0">> >>
      [] e = <<"8", "0">> -> << <<"8", "0">>, <<"8", "0">> >>
      [] e = <<"4", "4", "3">> -> << <<"4", "4", "3">>, <<"4", "4", "3">> >>

\* C13: alloc derives one security-group rule per entry, in input order: for a
\* non-connector from the exposed ports of the first container, "8080-8090" giving
\* (8080, 8090) and "22" giving (22, 22); for a connector from the port maps of all
\* containers, "8080:80" and "80" both giving (80, 80).
C13_PortRules ==
    PortsReadable =>
        /\ Len(sec_group_ports) = Len(RuleEntries)
        /\ \A j \in DOMAIN RuleEntries :
              sec_group_ports[j] = IF args["ctype"] = "connector"
                                   THEN ConnectorExample(RuleEntries[j])
                                   ELSE ExposedExample(RuleEntries[j])

\* a non-connector alloc whose first container exposes a range and a single port
C13_Witness ==
    /\ PortsReadable
    /\ args["ctype"] # "connector"
    /\ sec_group_ports = << << <<"8", "0", "8", "0">>, <<"8", "0", "9", "0">> >>,
                            << <<"2", "2">>, <<"2", "2">> >> >>

\* C14 as stated: the rule of a connector entry with an explicit split is the
\* published (host-facing) port, "8080:80" giving (8080, 8080).
C14_ConnectorUsesHostPort ==
    (PortsReadable /\ args["ctype"] = "connector") =>
        \A j \in DOMAIN RuleEntries :
           RuleEntries[j] = <<"8", "0", "8", "0", ":", "8", "0">> =>
              /\ j \in DOMAIN sec_group_ports
              /\ sec_group_ports[j] = << <<"8", "0", "8", "0">>, <<"8", "0", "8", "0">> >>

\* the characters of s after its first colon, up to the next colon
RECURSIVE AfterColon(_, _, _)
AfterColon(s, i, seen) ==
    IF i > Len(s) THEN <<>>
    ELSE IF s[i] = ":" THEN (IF seen THEN <<>> ELSE AfterColon(s, i + 1, TRUE))
    ELSE IF seen THEN <<s[i]>> \o AfterColon(s, i + 1, seen)
    ELSE AfterColon(s, i + 1, seen)

\* C14 amended: the rule of a connector entry "host:container" is the container-side
\* port, the part after the colon, and the host port is ignored; an entry without a
\* colon gives the port it names.
C14_ConnectorUsesContainerPort ==
    (PortsReadable /\ args["ctype"] = "connector") =>
        /\ Len(sec_group_ports) = Len(RuleEntries)
        /\ \A j \in DOMAIN RuleEntries :
              LET e == RuleEntries[j]
                  port == IF ":" \in Range(e) THEN AfterColon(e, 1, FALSE) ELSE e
              IN  sec_group_ports[j] = <<port, port>>

\* a connector alloc whose first port-map entry is "8080:80", with the rule (80, 80)
C14_Witness ==
    /\ PortsReadable
    /\ args["ctype"] = "connector"
    /\ Len(RuleEntries) >= 1
    /\ RuleEntries[1] = <<"8", "0", "8", "0", ":", "8", "0">>
    /\ sec_group_ports[1] = << <<"8", "0">>, <<"8", "0">> >>

\* C15: the composition of _create_app_stack raises nothing on a name two fragments
\* share: the composed resource map has the names of the three fragments, each once,
\* and under a shared name the definition of the fragment merged last (security
\* group, then floating IPs, then instances); with disjoint names it is their union.
C15_ComposeLaterWins ==
    (op = "compose" /\ Ended) =>
        /\ pc = "done"
        /\ err = "none"
        /\ LET composed == ret["plan"]["Resources"]
               sec == args["sec"]
               ip == args["ip"]
               inst == args["inst"]
           IN  /\ DOMAIN composed = DOMAIN sec \cup DOMAIN ip \cup DOMAIN inst
               /\ \A n \in DOMAIN composed :
                     composed[n] = IF n \in DOMAIN inst THEN inst[n]
                                   ELSE IF n \in DOMAIN ip THEN ip[n]
                                   ELSE sec[n]

\* a composition in which all three fragments define one name and another name is
\* defined by the first two only
C15_Witness ==
    /\ op = "compose"
    /\ pc = "done"
    /\ \E n \in DOMAIN args["sec"] \cap DOMAIN args["ip"] \cap DOMAIN args["inst"] :
          ret["plan"]["Resources"][n]["Type"] = "OS::Neutron::Port"
    /\ \E n \in (DOMAIN args["sec"] \cap DOMAIN args["ip"]) \ DOMAIN args["inst"] :
          ret["plan"]["Resources"][n]["Type"] = "OS::Neutron::FloatingIP"

\* the stack identifiers the table of an application records
StackIdsOf(desc) ==
    {desc[k]["id"] : k \in {x \in DOMAIN desc : desc[x]["type"] = "OS::Heat::Stack"}}

\* what the registry holds for a cluster: one table or nothing
Registered(registry, c) == IF c \in DOMAIN registry THEN {registry[c]} ELSE {}

\* the step changes the entry of cluster c only inside an alloc of c, which leaves an
\* entry, or inside a teardown of a stack the entry records
RegistryStep(c) ==
    Registered(apps', c) # Registered(apps, c) =>
        \/ /\ op' = "alloc"
           /\ args'["cluster_uuid"] = c
           /\ c \in DOMAIN apps'
        \/ /\ op' = "delete"
           /\ c \in DOMAIN apps
           /\ stack_id' \in StackIdsOf(apps[c])

\* C16: an entry of apps appears only in an alloc of its cluster, and once there no
\* step of any other operation removes or replaces it: only a teardown of that
\* cluster's stack or a later alloc of the same cluster may.
C16_RegistryLifecycle == [][\A c \in Clusters : RegistryStep(c)]_vars

\* a teardown of the very stack an application records has run to its end and the
\* entry of the application is still in the registry
C16_Witness ==
    /\ op = "delete"
    /\ pc = "done"
    /\ "c1" \in DOMAIN apps
    /\ stack_id \in StackIdsOf(apps["c1"])
    /\ CallsOf("heat.stacks.delete") # {}

\* the instance entries of the table being reconciled
InstanceEntries == {k \in DOMAIN stack_desc : stack_desc[k]["type"] = "OS::Nova::Server"}

\* C17: when _collect_network_info starts, every port name in the ports list of an
\* instance entry of the description table is a key of the table, whatever the number
\* of instances and with or without floating IPs.
C17_PortsAreKeys ==
    pc = "netinfo" =>
        \A k \in InstanceEntries :
           \A i \in DOMAIN stack_desc[k]["ports"] :
              stack_desc[k]["ports"][i] \in DOMAIN stack_desc

\* reconciliation starts on a table with as many instances as the bound allows, each
\* with a port, and a floating IP per port
C17_Witness ==
    /\ pc = "netinfo"
    /\ Cardinality(InstanceEntries) = MaxInstances
    /\ \A k \in InstanceEntries : Len(stack_desc[k]["ports"]) = 1
    /\ \E k \in DOMAIN stack_desc : stack_desc[k]["type"] = "OS::Neutron::FloatingIP"

\* both threads have created a stack for the same cluster and stored their table
BothStored ==
    /\ \A t \in Threads : race[t]["stored"] > 0
    /\ race[1]["args"]["cluster_uuid"] = race[2]["args"]["cluster_uuid"]

\* the stack identifiers some table of the registry records
ReachableStackIds == UNION {StackIdsOf(apps[c]) : c \in DOMAIN apps}

\* C18: when two concurrent allocs of one cluster_uuid have both created their stack
\* and stored their table, apps[cluster_uuid] holds one table only, that of the thread
\* that stored last, and the identifier of the other thread's stack is in no table of
\* the registry.
C18_LastStoreWins ==
    BothStored =>
        \A t, u \in Threads :
           race[t]["stored"] > race[u]["stored"] =>
              /\ apps[race[t]["args"]["cluster_uuid"]] = race[t]["stack_desc"]
              /\ race[t]["stack_id"] \in ReachableStackIds
              /\ race[u]["stack_id"] \notin ReachableStackIds

\* the second caller came in while the first was polling, the first stored last, and
\* the two stacks are different stacks of Heat
C18_Witness ==
    /\ BothStored
    /\ race[1]["stored"] > race[2]["stored"]
    /\ race[1]["stack_id"] # race[2]["stack_id"]
    /\ NoneVal \notin {race[t]["stack_id"] : t \in Threads}
    /\ race[2]["stack_id"] \notin ReachableStackIds

\* the rules of the group _create_security_group returned
GroupRules == ret["val"][args["group_name"]]["Properties"]["rules"]

\* C19: the rule list of _create_security_group is the two baseline rules, ICMP from
\* anywhere and TCP port 22 from anywhere, followed by exactly one TCP rule per port
\* pair, in input order, with the pair's bounds as port_range_min and port_range_max.
C19_SecurityGroupRules ==
    (op = "secgroup" /\ pc = "done") =>
        /\ Len(GroupRules) = 2 + Len(args["ports"])
        /\ GroupRules[1] = [protocol |-> "icmp", remote_ip_prefix |-> "0.0.0.0/0"]
        /\ GroupRules[2] = [protocol |-> "tcp", remote_ip_prefix |-> "0.0.0.0/0",
                            port_range_min |-> 22, port_range_max |-> 22]
        /\ \A i \in DOMAIN args["ports"] :
              GroupRules[2 + i] = [protocol |-> "tcp",
                                   port_range_min |-> args["ports"][i][1],
                                   port_range_max |-> args["ports"][i][2]]

\* a group built for a range and a single port
C19_Witness ==
    /\ op = "secgroup"
    /\ pc = "done"
    /\ args["ports"] = << << <<"8", "0", "8", "0">>, <<"8", "0", "9", "0">> >>,
                          << <<"2", "2">>, <<"2", "2">> >> >>
    /\ Len(GroupRules) = 4

\* C20: if the engine reports a terminal status in the end and only finitely many
\* reads raise the authorization error, a _wait_for_stack that has started polling
\* eventually returns: the call leaves the poll loop.
C20_WaitEventuallyReturns == (pc = "poll") ~> (pc # "poll")

\* _wait_for_stack has returned after as many non-terminal reads as the bound allows,
\* authorization errors and pending statuses among them
C20_Witness ==
    /\ op = "wait"
    /\ pc = "done"
    /\ Len(reads) = MaxPolls + 1
    /\ \E i \in DOMAIN reads : reads[i] = "HTTPUnauthorized"
    /\ \E i \in DOMAIN reads : reads[i] \in PendingStatuses

\* the phase of alloc a remote call belongs to
PhaseOf(c) ==
    CASE c["api"] = "heat.stacks.create" -> 1
      [] c["api"] = "heat.stacks.get" -> 2
      [] c["api"] = "heat.resources.list" -> 3
      [] c["api"] = "neutron.list_floatingips" -> 4
      [] c["api"] = "neutron.list_ports" -> 5
      [] OTHER -> 6

\* the calls of a phase made so far
InPhase(n) == {i \in DOMAIN calls : PhaseOf(calls[i]) = n}

\* the remote calls alloc has made so far are in the order create, polls, resource
\* listing, floating-IP listing, port listing, each but the polls at most once, and
\* the resources are listed after a poll
C21_RemoteOrder ==
    op = "alloc" =>
        /\ \A i, j \in DOMAIN calls : i < j => PhaseOf(calls[i]) <= PhaseOf(calls[j])
        /\ \A n \in {1, 3, 4, 5} : Cardinality(InPhase(n)) <= 1
        /\ calls # <<>> => PhaseOf(calls[1]) = 1
        /\ InPhase(3) # {} => InPhase(2) # {}

\* C21: an alloc whose port lists are readable and whose stack does not fail returns
\* after the remote calls create, one or more polls, resource listing, floating-IP
\* listing, port listing, in that order, followed by one workload-launcher call per
\* requested container in request order, none of them before the port listing.
C21_PhaseOrder ==
    (op = "alloc" /\ Ended /\ PortsReadable /\ "FAILED" \notin Range(reads)) =>
        /\ pc = "done"
        /\ C21_RemoteOrder
        /\ \A n \in {1, 3, 4, 5} : Cardinality(InPhase(n)) = 1
        /\ InPhase(2) # {}
        /\ Cardinality(InPhase(6)) = Len(args["container_info"])
        /\ \A i \in InPhase(6) :
              /\ calls[i]["api"] = "controller.execute_docker_containers"
              /\ \E k \in DOMAIN args["container_info"] :
                    /\ calls[i]["container"] = args["container_info"][k]
                    /\ i = Len(calls) - Len(args["container_info"]) + k

\* in the resources res there is one floating IP and one association per port of M:
\* each association sits under the name of its own floating IP and refers to it and
\* to a port of M, and every port of M and every floating IP is bound exactly once
OneFloatingIpPerPort(res, M) ==
    LET F == {k \in DOMAIN res : res[k]["Type"] = "OS::Neutron::FloatingIP"}
        A == {k \in DOMAIN res : res[k]["Type"] = "OS::Neutron::FloatingIPAssociation"}
        IpOf(a) == res[a]["Properties"]["floatingip_id"]["Ref"]
        PortOf(a) == res[a]["Properties"]["port_id"]["Ref"]
    IN  /\ Cardinality(F) = Cardinality(M)
        /\ Cardinality(A) = Cardinality(M)
        /\ \A a \in A : IpOf(a) \in F /\ a = IpOf(a) \o "_assoc" /\ PortOf(a) \in M
        /\ \A m \in M : Cardinality({a \in A : PortOf(a) = m}) = 1
        /\ \A f \in F : Cardinality({a \in A : IpOf(a) = f}) = 1

\* the ports of a template
TemplatePorts(template) == OfType(template, "OS::Neutron::Port")

\* C22: the floating-IP plan built for the management ports of a cluster, and every
\* submitted template that carries floating IPs, has exactly one floating IP and one
\* association per management port: each association refers to its own floating IP
\* and to one port, every port is bound by exactly one association and no two
\* floating IPs are bound to the same port.
C22_OneFloatingIpPerPort ==
    /\ (op = "fipplan" /\ pc = "done") =>
          OneFloatingIpPerPort(ret["plan"]["Resources"], Range(args["ifaces"]))
    /\ \A i \in DOMAIN submitted :
          HasFloatingIp(submitted[i]["template"]) =>
             OneFloatingIpPerPort(submitted[i]["template"]["Resources"],
                                  TemplatePorts(submitted[i]["template"]))

\* a floating-IP plan built for as many management ports as the bound allows
C22_Witness ==
    /\ op = "fipplan"
    /\ pc = "done"
    /\ Len(args["ifaces"]) = MaxInstances
    /\ Cardinality(OfType(ret["plan"], "OS::Neutron::FloatingIP")) = MaxInstances

IsUpdate(c) == c["api"] = "neutron.update_floatingip"

\* the disassociation calls that raised
FailedDisassociations == {i \in CallsOf("neutron.update_floatingip") : "out" \in DOMAIN calls[i]}

\* C23: once a disassociation call of _delete_stack has raised, the call has ended
\* with that exception, the raising call is the last remote call and heat.stacks.delete
\* was never issued; the update calls made are the listed floating IPs up to the
\* failing one, in listing order, each once and each with port_id None, so the earlier
\* ones are disassociated and none is associated again.
C23_RaisingDisassociationStopsDelete ==
    (op = "delete" /\ FailedDisassociations # {}) =>
        /\ pc = "raised"
        /\ err = "NeutronClientException"
        /\ ret["kind"] = "unset"
        /\ CallsOf("heat.stacks.delete") = {}
        /\ FailedDisassociations = {Len(calls)}
        /\ LET ups == SelectSeq(calls, IsUpdate)
               listed == SelectSeq(resources, IsFloatingIp)
           IN  /\ Len(ups) <= Len(listed)
               /\ \A k \in DOMAIN ups :
                     /\ ups[k]["arg"] = listed[k]["physical_resource_id"]
                     /\ ups[k]["body"]["floatingip"]["port_id"] = NoneVal

\* the second of two listed floating IPs failed to disassociate after the first
\* was disassociated
C23_Witness ==
    /\ op = "delete"
    /\ pc = "raised"
    /\ Cardinality(CallsOf("neutron.update_floatingip")) = 2
    /\ FailedDisassociations = {Len(calls)}
    /\ Cardinality({i \in DOMAIN resources : IsFloatingIp(resources[i])}) = 2

\* C24: in an alloc whose stack was created and reconciled, apps[cluster_uuid] is
\* written before any workload-launcher call, and when a later step of the call has
\* raised, apps[cluster_uuid] holds the reconciled table with the entry of the stack
\* and its identifier.
C24_StoredBeforeLaunch ==
    op = "alloc" =>
        /\ InPhase(6) # {} => args["cluster_uuid"] \in DOMAIN apps
        /\ (pc = "raised" /\ CallsOf("neutron.list_ports") # {}) =>
              /\ args["cluster_uuid"] \in DOMAIN apps
              /\ apps[args["cluster_uuid"]] = stack_desc
              /\ stack_name \in DOMAIN stack_desc
              /\ StackIdsOf(apps[args["cluster_uuid"]]) = {stack_id}

\* the step after the store has raised and the registry holds the stack of the call
C24_Witness ==
    /\ op = "alloc"
    /\ pc = "raised"
    /\ err = "AttributeError"
    /\ args["cluster_uuid"] \in DOMAIN apps
    /\ stack_id \in StackIdsOf(apps[args["cluster_uuid"]])

====
